---------------------------- MODULE Spec2Model ----------------------------
(***************************************************************************)
(* Model of the API-gateway rotator (src/main.go): one ApiGateway object,  *)
(* the provider (AWS API Gateway) it provisions gateways at, and the       *)
(* outgoing request that Reroute rewrites in place.                        *)
(*                                                                         *)
(* Strings are sequences of tokens: a token is one delimiter character     *)
(* (":", "/", "?", "#"), a piece of ordinary text, an invalid percent      *)
(* escape ("%zz") or a control byte (CTL).  Concatenation is \o.           *)
(* An optional value (a Go pointer, a header that may be absent) is a      *)
(* sequence of length 0 or 1.                                              *)
(***************************************************************************)
EXTENDS Integers, Sequences, FiniteSets, TLC

VARIABLES
    ag,        \* the ApiGateway struct: Site, Name, Endpoints, Regions
    apis,      \* provider: region -> the REST APIs of the region, in listing order
    nextId,    \* provider: number of the next API id it hands out
    request,   \* <<>> or <<r>>: the *http.Request the caller holds
    hist,      \* values stored in X-Forwarded-For-Temp by each rewrite of request
    last,      \* the last operation: its arguments, result and fault
    tasks      \* region -> the Initialize task that Start launched for the region

vars == <<ag, apis, nextId, request, hist, last, tasks>>

-----------------------------------------------------------------------------
(* Bounds of the model *)

MaxApis == 3        \* APIs the provider creates in a run
MaxTempLen == 2     \* values X-Forwarded-For-Temp may hold before a rewrite stops
MaxOthers == 1      \* APIs of other owners in the account
MaxSiteLen == 4     \* tokens of a site string passed to NewApiGateway

-----------------------------------------------------------------------------
(* Strings *)

CTL == "\\x7f"
BadEscape == "%zz"
Delims == {":", "/", "?", "#"}

Min(a, b) == IF a < b THEN a ELSE b

\* index of the first occurrence of token t in s, 0 when there is none
RECURSIVE IndexFrom(_, _, _)
IndexFrom(s, t, i) ==
    IF i > Len(s) THEN 0
    ELSE IF s[i] = t THEN i
    ELSE IndexFrom(s, t, i + 1)

Index(s, t) == IndexFrom(s, t, 1)

Contains(s, t) == Index(s, t) # 0

HasPrefix(s, p) == Len(s) >= Len(p) /\ SubSeq(s, 1, Len(p)) = p

Tail2(s, n) == SubSeq(s, n + 1, Len(s))

\* strings.TrimRight(s, "/")
RECURSIVE TrimRightSlash(_)
TrimRightSlash(s) ==
    IF Len(s) > 0 /\ s[Len(s)] = "/" THEN TrimRightSlash(SubSeq(s, 1, Len(s) - 1))
    ELSE s

-----------------------------------------------------------------------------
(* net/url.Parse, as far as Reroute's argument exercises it *)

NoURL == [Scheme |-> <<>>, Host |-> <<>>, Path |-> <<>>, RawQuery |-> <<>>]

\* url.Parse(raw): [err, url].  A control byte anywhere, or an invalid percent
\* escape in the host or the path, is an error.  The fragment is cut at the
\* first "#", the scheme at the first ":", the query at the first "?", and
\* after "//" the authority runs to the next "/".
urlParse(raw) ==
    LET hashAt == Index(raw, "#")
        noFrag == IF hashAt = 0 THEN raw ELSE SubSeq(raw, 1, hashAt - 1)
        colonAt == Index(noFrag, ":")
        hasScheme == colonAt = 2 /\ noFrag[1] \notin Delims
        scheme == IF hasScheme THEN <<noFrag[1]>> ELSE <<>>
        rest == IF hasScheme THEN Tail2(noFrag, 2) ELSE noFrag
        qAt == Index(rest, "?")
        hier == IF qAt = 0 THEN rest ELSE SubSeq(rest, 1, qAt - 1)
        query == IF qAt = 0 THEN <<>> ELSE Tail2(rest, qAt)
        hasAuth == HasPrefix(hier, <<"/", "/">>)
        afterAuth == IF hasAuth THEN Tail2(hier, 2) ELSE hier
        slashAt == Index(afterAuth, "/")
        host == IF ~hasAuth THEN <<>>
                ELSE IF slashAt = 0 THEN afterAuth
                ELSE SubSeq(afterAuth, 1, slashAt - 1)
        path == IF ~hasAuth THEN hier
                ELSE IF slashAt = 0 THEN <<>>
                ELSE Tail2(afterAuth, slashAt - 1)
    IN  IF Contains(raw, CTL) THEN [err |-> "invalid control character in URL", url |-> NoURL]
        ELSE IF Contains(host, BadEscape) \/ Contains(path, BadEscape)
            THEN [err |-> "invalid URL escape", url |-> NoURL]
        ELSE [err |-> "",
              url |-> [Scheme |-> scheme, Host |-> host, Path |-> path, RawQuery |-> query]]

-----------------------------------------------------------------------------
(* net/http.Header: canonical name -> the values of the name, in order *)

XFF == "X-Forwarded-For"
XFFTemp == "X-Forwarded-For-Temp"
HeaderNames == {XFF, XFFTemp, "Accept"}

\* Header.Get: the first value of the name, "" when it has none
HeaderGet(h, k) == IF Len(h[k]) = 0 THEN <<>> ELSE h[k][1]

\* Header.Add: appends to the values the name already has
HeaderAdd(h, k, v) == [h EXCEPT ![k] = Append(@, v)]

\* Header.Del
HeaderDel(h, k) == [h EXCEPT ![k] = <<>>]

-----------------------------------------------------------------------------
(* randomIpv4 *)

\* results of rand.Uint32(), each held as its two 16-bit halves
RandSamples == { [hi |-> 258, lo |-> 772], [hi |-> 65535, lo |-> 65535] }

\* binary.LittleEndian.PutUint32(buf, ip) and net.IP.String(): the text
\* "b0.b1.b2.b3", held as the sequence of its four octets
randomIpv4(ip) ==
    << ip.lo % 256, (ip.lo \div 256) % 256, ip.hi % 256, (ip.hi \div 256) % 256 >>

-----------------------------------------------------------------------------
(* The provider: apigateway.Client, seen from its call sites *)

DefaultRegions == <<"us-east-1", "us-east-2">>

Range(s) == {s[i] : i \in 1..Len(s)}

RegionSet == Range(DefaultRegions)

OtherName == "sample_rest"     \* an API of the account that is not the gateway's

\* the id the provider gives its n-th API
NewId(n) == "id" \o ToString(n)

\* the position marker the provider uses for offset k; emptyAt is the offset,
\* if any, whose marker is the empty string
Marker(k, emptyAt) == IF k = emptyAt THEN "" ELSE "pos" \o ToString(k)

\* the offset a request's Position stands for; a request without one starts
\* at the first item
Offset(position, list, emptyAt) ==
    IF position = <<>> THEN 0
    ELSE CHOOSE k \in 0..Len(list) : Marker(k, emptyAt) = position[1]

\* the page sizes the provider serves
PageSizes == {1, 2}

\* the page sizes that tell a listing of n items apart
PagesFor(n) == {p \in PageSizes : p = 1 \/ p <= n}

\* client.GetRestApis on success: one page of at most Min(limit, page) items
\* from the requested position, with the marker of the next page if items remain
GetRestApis(list, position, limit, page, emptyAt) ==
    LET off == Offset(position, list, emptyAt)
        n == Min(limit, page)
        upto == Min(off + n, Len(list))
    IN  [Items |-> SubSeq(list, off + 1, upto),
         Position |-> IF upto >= Len(list) THEN <<>> ELSE <<Marker(upto, emptyAt)>>]

\* client.DeleteRestApi on success
DeleteRestApi(list, id) == SelectSeq(list, LAMBDA a : a.Id # id)

\* fmt.Sprintf("%s.execute-api.%s.amazonaws.com", id, region)
Hostname(id, region) == <<id, ".execute-api.", region, ".amazonaws.com">>

-----------------------------------------------------------------------------
(* The result of an operation *)

NoResult(op, region) ==
    [op |-> op, region |-> region,
     fault |-> "none",      \* "panic": the process ended; "hang": the call never returns
     err |-> "",            \* the error returned, "" for nil
     ret |-> <<>>,          \* the value returned
     log |-> <<>>,          \* GetEndpoints: the provider requests and their answers
     site |-> <<>>,         \* NewApiGateway: <<the site string passed>>
     exists |-> FALSE,      \* Initialize: what ApiExistsInRegion answered
     present |-> FALSE,     \* Initialize: the region held an API of the name on entry
     created |-> FALSE,     \* Initialize: CreateRestApi created an API
     before |-> <<>>,       \* Reroute: the request as it was on entry
     endpoint |-> <<>>]     \* Reroute: the endpoint chosen

Running == last.fault = "none"

\* the caller runs one operation at a time and holds no request while it
\* provisions, lists or deletes
Idle == Running /\ request = <<>>

-----------------------------------------------------------------------------
(* NewApiGateway *)

NewApiGateway(site, name) ==
    [Site |-> IF site[Len(site)] = "/" THEN TrimRightSlash(site) ELSE site,
     Name |-> name,
     Endpoints |-> <<>>,
     Regions |-> DefaultRegions]

\* site[len(site)-1] on the empty string: index out of range
NewApiGatewayPanics(site) == Len(site) = 0

\* the caller's variable before NewApiGateway has returned a gateway
NoGateway == [Site |-> <<>>, Name |-> "", Endpoints |-> <<>>, Regions |-> <<>>]

\* the pieces the site strings are made of
SiteTokens == {"/", "https://mangahere.cc", "img"}

RECURSIVE StringsUpTo(_)
StringsUpTo(n) ==
    IF n = 0 THEN {<<>>}
    ELSE LET shorter == StringsUpTo(n - 1)
         IN  shorter \cup {Append(t, c) : t \in shorter, c \in SiteTokens}

SiteStrings == StringsUpTo(MaxSiteLen)

\* a call of NewApiGateway(site, "mangahere")
Construct ==
    /\ Running
    /\ \E site \in SiteStrings :
        LET res == [NoResult("NewApiGateway", "") EXCEPT !.site = <<site>>]
        IN  IF NewApiGatewayPanics(site)
                THEN /\ last' = [res EXCEPT !.fault = "panic"]
                     /\ ag' = ag
            ELSE /\ last' = res
                 /\ ag' = NewApiGateway(site, "mangahere")
    /\ UNCHANGED <<apis, nextId, request, hist, tasks>>

-----------------------------------------------------------------------------
(* GetGateways, GetEndpoints, DeleteGateways *)

defaultLimit == 500

\* the loop of GetGateways from one iteration on: [result, err, fault, log].
\* failAt numbers the provider request that returns an error (0: none).  The
\* provider answers a position the same way each time, so a loop that comes
\* back to a position it has already requested never ends.
RECURSIVE GetGatewaysLoop(_, _, _, _, _, _, _, _)
GetGatewaysLoop(list, page, emptyAt, failAt, defaultPosition, result, seen, log) ==
    LET position == IF defaultPosition # "" THEN <<defaultPosition>> ELSE <<>>
        response == GetRestApis(list, position, defaultLimit, page, emptyAt)
        entry == [Sent |-> position, Items |-> response.Items, Position |-> response.Position]
    IN  IF Len(log) + 1 = failAt
            THEN [result |-> result, err |-> "cannot get rest apis", fault |-> "none",
                  log |-> Append(log, [Sent |-> position, Items |-> <<>>, Position |-> <<>>])]
        ELSE IF failAt = 0 /\ defaultPosition \in seen
            THEN [result |-> result, err |-> "", fault |-> "hang", log |-> log]
        ELSE IF response.Position # <<>>
            THEN GetGatewaysLoop(list, page, emptyAt, failAt, response.Position[1],
                                 result \o response.Items, seen \cup {defaultPosition},
                                 Append(log, entry))
        ELSE [result |-> result \o response.Items, err |-> "", fault |-> "none",
              log |-> Append(log, entry)]

GetGatewaysRun(list, page, emptyAt, failAt) ==
    GetGatewaysLoop(list, page, emptyAt, failAt, "", <<>>, {}, <<>>)

\* the hostnames GetEndpoints builds from the listed APIs
EndpointsOf(result, region) == [i \in 1..Len(result) |-> Hostname(result[i].Id, region)]

\* GetEndpoints returning the hostnames of the pages fetched before an error
GetEndpointsPartial(g, region) == [ret |-> EndpointsOf(g.result, region), err |-> g.err]

\* GetEndpoints from the return of GetGateways on: [ret, err]
GetEndpointsReturn(g, region) ==
    IF g.err # "" THEN [ret |-> <<>>, err |-> g.err]
    ELSE [ret |-> EndpointsOf(g.result, region), err |-> ""]

\* the loop of DeleteGateways over the listed APIs: [list, deletedIds, err].
\* delFailAt numbers the DeleteRestApi call that returns an error (0: none).
RECURSIVE DeleteLoop(_, _, _, _, _)
DeleteLoop(list, todo, delFailAt, j, deletedIds) ==
    IF todo = <<>> THEN [list |-> list, deletedIds |-> deletedIds, err |-> ""]
    ELSE IF j = delFailAt
        THEN [list |-> list, deletedIds |-> deletedIds, err |-> "cannot delete rest api"]
    ELSE DeleteLoop(DeleteRestApi(list, Head(todo).Id), Tail(todo), delFailAt, j + 1,
                    Append(deletedIds, Head(todo).Id))

\* the environment of one listing: whether config.LoadDefaultConfig fails, the
\* provider's page size, the offset whose marker is empty (0: none) and the
\* request that fails (0: none).  Only an offset a page ends at gets a marker,
\* and a request past the last one of the listing is never made.
ListingInputs(region) ==
    LET n == Len(apis[region])
        requests(in) == IF in.emptyAt # 0 THEN in.emptyAt \div in.page + 1
                        ELSE IF n = 0 THEN 1
                        ELSE (n + in.page - 1) \div in.page
    IN  {[cfgErr |-> TRUE, page |-> 1, emptyAt |-> 0, failAt |-> 0]} \cup
        {in \in [cfgErr : {FALSE}, page : PagesFor(n), emptyAt : 0..n, failAt : 0..(n + 1)] :
            /\ in.emptyAt < n
            /\ in.emptyAt % in.page = 0
            /\ in.failAt <= requests(in)}

GetGateways(region) ==
    /\ Idle
    /\ \E in \in ListingInputs(region) :
        LET g == GetGatewaysRun(apis[region], in.page, in.emptyAt, in.failAt)
        IN  last' = IF in.cfgErr THEN [NoResult("GetGateways", region) EXCEPT !.fault = "panic"]
                    ELSE [NoResult("GetGateways", region) EXCEPT
                            !.fault = g.fault, !.err = g.err, !.ret = g.result]
    /\ UNCHANGED <<ag, apis, nextId, request, hist, tasks>>

GetEndpoints(region) ==
    /\ Idle
    /\ \E in \in ListingInputs(region) :
        LET g == GetGatewaysRun(apis[region], in.page, in.emptyAt, in.failAt)
            r == GetEndpointsReturn(g, region)
        IN  last' = IF in.cfgErr THEN [NoResult("GetEndpoints", region) EXCEPT !.fault = "panic"]
                    ELSE IF g.fault # "none"
                        THEN [NoResult("GetEndpoints", region) EXCEPT !.fault = g.fault, !.log = g.log]
                    ELSE [NoResult("GetEndpoints", region) EXCEPT
                            !.err = r.err, !.ret = r.ret, !.log = g.log]
    /\ UNCHANGED <<ag, apis, nextId, request, hist, tasks>>

DeleteGateways(region) ==
    /\ Idle
    /\ \E in \in ListingInputs(region) :
        LET g == GetGatewaysRun(apis[region], in.page, in.emptyAt, in.failAt)
            res == NoResult("DeleteGateways", region)
        IN  IF in.cfgErr
                THEN /\ last' = [res EXCEPT !.fault = "panic"]
                     /\ apis' = apis
            ELSE IF g.fault # "none"
                THEN /\ last' = [res EXCEPT !.fault = g.fault]
                     /\ apis' = apis
            ELSE IF g.err # ""
                THEN /\ last' = [res EXCEPT !.err = g.err]
                     /\ apis' = apis
            ELSE \E delFailAt \in 0..Len(g.result) :
                    LET d == DeleteLoop(apis[region], g.result, delFailAt, 1, <<>>)
                    IN  /\ last' = [res EXCEPT !.err = d.err, !.ret = d.deletedIds]
                        /\ apis' = [apis EXCEPT ![region] = d.list]
    /\ UNCHANGED <<ag, nextId, request, hist, tasks>>

-----------------------------------------------------------------------------
(* ApiExistsInRegion, Initialize *)

\* ApiExistsInRegion from the provider's answer on: the input carries neither
\* Position nor Limit, so the answer is the first page, of the provider's size
ApiExistsInRegion(list, name, page) ==
    LET output == GetRestApis(list, <<>>, page, page, 0)
    IN  \E i \in 1..Len(output.Items) : output.Items[i].Name = name

\* the provider calls of Initialize, in order
InitSteps ==
    <<"LoadDefaultConfig", "GetRestApis", "CreateRestApi", "PutMethod", "PutIntegration",
      "CreateResource", "PutMethodWildcard", "PutIntegrationWildcard", "CreateDeployment">>

StepOf(name) == CHOOSE i \in 1..Len(InitSteps) : InitSteps[i] = name

\* the error Initialize returns when the provider call numbered failAt fails
InitError(failAt) ==
    CASE InitSteps[failAt] = "CreateRestApi" -> "cannot create new API"
      [] InitSteps[failAt] = "PutMethod" -> "cannot create method"
      [] InitSteps[failAt] = "PutIntegration" -> "cannot create integration"
      [] InitSteps[failAt] = "CreateResource" -> "cannot create wildcard handler"
      [] InitSteps[failAt] = "PutMethodWildcard" -> "cannot create wildcard method input"
      [] InitSteps[failAt] = "PutIntegrationWildcard" -> "cannot integrate wildcard method"
      [] OTHER -> "cannot create deployment"

AlreadyExists == "an API already exists"

\* what Initialize returns when ApiExistsInRegion answers true
ExistsReturn == AlreadyExists

\* the endpoint list after every provisioning step has succeeded
AppendEndpoint(endpoints, id, region) == Append(endpoints, Hostname(id, region))

\* Initialize appending the hostname although a step after CreateRestApi failed
AppendOnError(endpoints, id, region) == Append(endpoints, Hostname(id, region))

\* the endpoint list when Initialize returns an error
KeepEndpoints(endpoints, id, region) == endpoints

\* failAt numbers the provider call that fails (0: none)
Initialize(region) ==
    /\ Idle
    /\ \E failAt \in 0..Len(InitSteps), page \in PagesFor(Len(apis[region])) :
        LET res == [NoResult("Initialize", region) EXCEPT
                        !.present = \E i \in 1..Len(apis[region]) : apis[region][i].Name = ag.Name]
            exists == ApiExistsInRegion(apis[region], ag.Name, page)
            id == NewId(nextId)
            newApi == [Id |-> id, Name |-> ag.Name, Deployed |-> failAt = 0]
        IN  IF failAt # 0 /\ failAt <= StepOf("GetRestApis")
                THEN /\ last' = [res EXCEPT !.fault = "panic"]
                     /\ UNCHANGED <<ag, apis, nextId>>
            ELSE IF exists
                THEN /\ last' = [res EXCEPT !.err = ExistsReturn, !.exists = TRUE]
                     /\ UNCHANGED <<ag, apis, nextId>>
            ELSE IF failAt = StepOf("CreateRestApi")
                THEN /\ last' = [res EXCEPT !.err = InitError(failAt)]
                     /\ UNCHANGED <<ag, apis, nextId>>
            ELSE /\ nextId <= MaxApis
                 /\ apis' = [apis EXCEPT ![region] = Append(@, newApi)]
                 /\ nextId' = nextId + 1
                 /\ IF failAt # 0
                        THEN /\ last' = [res EXCEPT !.err = InitError(failAt), !.created = TRUE]
                             /\ ag' = [ag EXCEPT !.Endpoints = KeepEndpoints(@, id, region)]
                        ELSE /\ last' = [res EXCEPT !.created = TRUE]
                             /\ ag' = [ag EXCEPT !.Endpoints = AppendEndpoint(@, id, region)]
    /\ UNCHANGED <<request, hist, tasks>>

\* another owner of the account creates an API in the region
OtherCreate(region) ==
    /\ Idle
    /\ nextId <= MaxApis
    /\ Cardinality({i \in 1..Len(apis[region]) : apis[region][i].Name = OtherName}) < MaxOthers
    /\ apis' = [apis EXCEPT ![region] =
                    Append(@, [Id |-> NewId(nextId), Name |-> OtherName, Deployed |-> TRUE])]
    /\ nextId' = nextId + 1
    /\ last' = NoResult("OtherCreate", region)
    /\ UNCHANGED <<ag, request, hist, tasks>>

-----------------------------------------------------------------------------
(* Start: one Initialize task per region, run concurrently *)

\* a task's position in Initialize and its locals: the id of the API it
\* created, the slice it read from ag.Endpoints, the error it returned
NoTask == [pc |-> "idle", id |-> "", endpoints |-> <<>>, err |-> ""]

NoTasks == [r \in RegionSet |-> NoTask]

\* the loop of Start: `go ag.Initialize(..., re, ctx)` for each region
Start ==
    /\ Idle
    /\ tasks = NoTasks
    /\ tasks' = [r \in RegionSet |-> IF r \in Range(ag.Regions)
                                      THEN [NoTask EXCEPT !.pc = "check"] ELSE NoTask]
    /\ last' = NoResult("Start", "")
    /\ UNCHANGED <<ag, apis, nextId, request, hist>>

\* a task up to the return of ApiExistsInRegion; failAt numbers the provider
\* call that fails (0: none)
TaskCheck(region) ==
    /\ Running
    /\ tasks[region].pc = "check"
    /\ \E failAt \in 0..StepOf("GetRestApis"), page \in PagesFor(Len(apis[region])) :
        IF failAt # 0
            THEN /\ last' = [NoResult("Initialize", region) EXCEPT !.fault = "panic"]
                 /\ tasks' = tasks
        ELSE IF ApiExistsInRegion(apis[region], ag.Name, page)
            THEN /\ tasks' = [tasks EXCEPT ![region].pc = "done", ![region].err = ExistsReturn]
                 /\ last' = last
        ELSE /\ tasks' = [tasks EXCEPT ![region].pc = "create"]
             /\ last' = last
    /\ UNCHANGED <<ag, apis, nextId, request, hist>>

\* a task from CreateRestApi to the return of CreateDeployment
TaskCreate(region) ==
    /\ Running
    /\ tasks[region].pc = "create"
    /\ \E failAt \in {0} \cup (StepOf("CreateRestApi")..Len(InitSteps)) :
        LET id == NewId(nextId)
            newApi == [Id |-> id, Name |-> ag.Name, Deployed |-> failAt = 0]
        IN  IF failAt = StepOf("CreateRestApi")
                THEN /\ tasks' = [tasks EXCEPT ![region].pc = "done",
                                               ![region].err = InitError(failAt)]
                     /\ UNCHANGED <<apis, nextId>>
            ELSE /\ nextId <= MaxApis
                 /\ apis' = [apis EXCEPT ![region] = Append(@, newApi)]
                 /\ nextId' = nextId + 1
                 /\ tasks' = [tasks EXCEPT
                                ![region].id = id,
                                ![region].pc = IF failAt = 0 THEN "load" ELSE "done",
                                ![region].err = IF failAt = 0 THEN "" ELSE InitError(failAt)]
    /\ UNCHANGED <<ag, request, hist, last>>

\* append(ag.Endpoints, ...): the task reads the slice.  No lock is held.
TaskLoad(region) ==
    /\ Running
    /\ tasks[region].pc = "load"
    /\ tasks' = [tasks EXCEPT ![region].pc = "store", ![region].endpoints = ag.Endpoints]
    /\ UNCHANGED <<ag, apis, nextId, request, hist, last>>

\* ag.Endpoints = ...: the task stores the slice it read, with its hostname
\* appended, and returns nil
TaskStore(region) ==
    /\ Running
    /\ tasks[region].pc = "store"
    /\ ag' = [ag EXCEPT !.Endpoints =
                AppendEndpoint(tasks[region].endpoints, tasks[region].id, region)]
    /\ tasks' = [tasks EXCEPT ![region].pc = "done", ![region].endpoints = <<>>]
    /\ UNCHANGED <<apis, nextId, request, hist, last>>

-----------------------------------------------------------------------------
(* Reroute *)

\* rand.Intn(n): the values it may return; none when it panics (n <= 0)
Intn(n) == IF n <= 0 THEN {} ELSE 0..(n - 1)

\* the indices of ag.Endpoints that Reroute may select
Selectable(endpoints) == Intn(Len(endpoints) - 1)

\* the text Reroute hands to url.Parse
ProxyUrlText(endpoint, req) ==
    <<"https", ":", "/", "/">> \o endpoint \o <<"/", "ProxyStage", "/">> \o req.Host

\* the header after the forwarded-for swap; randIp is randomIpv4().String()
SwapForwardedFor(header, randIp) ==
    LET val == HeaderGet(header, XFF)
        added == IF val = <<>> THEN HeaderAdd(header, XFFTemp, randIp)
                 ELSE HeaderAdd(header, XFFTemp, val)
    IN  HeaderDel(added, XFF)

\* the value the swap stores in X-Forwarded-For-Temp
StoredValue(header, randIp) ==
    IF HeaderGet(header, XFF) = <<>> THEN randIp ELSE HeaderGet(header, XFF)

\* the request after a successful parse of the proxy URL
Rewritten(req, proxyUrl, endpoint, randIp) ==
    [URL |-> proxyUrl, Host |-> endpoint, Header |-> SwapForwardedFor(req.Header, randIp)]

\* Reroute swapping the forwarded-for headers before it checks the parse
ParseFailedPartial(req, endpoint, randIp) ==
    [req EXCEPT !.Header = SwapForwardedFor(req.Header, randIp)]

\* the request Reroute returns when url.Parse fails
ParseFailed(req, endpoint, randIp) == req

\* the addresses randomIpv4().String() may give in a call; the call is made
\* only for a request without X-Forwarded-For
RandomIps(req) ==
    IF HeaderGet(req.Header, XFF) = <<>> THEN {randomIpv4(ip) : ip \in RandSamples}
    ELSE {randomIpv4(CHOOSE ip \in RandSamples : TRUE)}

Reroute ==
    /\ Running
    /\ request # <<>>
    /\ Len(request[1].Header[XFFTemp]) < MaxTempLen
    /\ LET req == request[1]
           res == [NoResult("Reroute", "") EXCEPT !.before = request]
       IN  IF Selectable(ag.Endpoints) = {}
               THEN /\ last' = [res EXCEPT !.fault = "panic"]
                    /\ UNCHANGED <<request, hist>>
           ELSE \E i \in Selectable(ag.Endpoints), randIp \in RandomIps(req) :
                LET endpoint == ag.Endpoints[i + 1]
                    parsed == urlParse(ProxyUrlText(endpoint, req))
                IN  IF parsed.err # ""
                        THEN /\ last' = [res EXCEPT !.err = parsed.err, !.endpoint = endpoint]
                             /\ request' = <<ParseFailed(req, endpoint, randIp)>>
                             /\ hist' = hist
                    ELSE /\ last' = [res EXCEPT !.endpoint = endpoint]
                         /\ request' = <<Rewritten(req, parsed.url, endpoint, randIp)>>
                         /\ hist' = Append(hist, StoredValue(req.Header, randIp))
    /\ UNCHANGED <<ag, apis, nextId, tasks>>

-----------------------------------------------------------------------------
(* The caller's requests *)

ClientIp == <<203, 0, 113, 7>>
OtherIp == <<198, 51, 100, 9>>

OriginHost == <<"origin.test">>

\* path and query of the destinations
Targets == { [Path |-> <<>>, RawQuery |-> <<>>],
             [Path |-> <<"/", "path">>, RawQuery |-> <<"x=1">>] }

\* the Host field: the URL's host, as http.NewRequest sets it, or one the
\* caller set that no URL can carry
HostFields == { OriginHost, <<"origin", BadEscape>>, <<"origin", CTL>> }

NewRequest ==
    /\ Idle
    /\ \E t \in Targets, host \in HostFields,
          xff \in {<<>>, <<ClientIp>>}, temp \in {<<>>, <<OtherIp>>} :
        request' = << [URL |-> [Scheme |-> <<"https">>, Host |-> OriginHost,
                                Path |-> t.Path, RawQuery |-> t.RawQuery],
                       Host |-> host,
                       Header |-> [k \in HeaderNames |->
                                     IF k = XFF THEN xff
                                     ELSE IF k = XFFTemp THEN temp
                                     ELSE <<>>]] >>
    /\ hist' = <<>>
    /\ last' = NoResult("NewRequest", "")
    /\ UNCHANGED <<ag, apis, nextId, tasks>>

\* the caller sends the request with a standard HTTP client and lets go of it
Dispatch ==
    /\ Running
    /\ request # <<>>
    /\ request' = <<>>
    /\ hist' = <<>>
    /\ last' = NoResult("Dispatch", "")
    /\ UNCHANGED <<ag, apis, nextId, tasks>>

-----------------------------------------------------------------------------
(* The specification *)

Sites == { <<"https://mangahere.cc">>, <<"https://mangahere.cc", "/">> }

Init ==
    /\ \E site \in Sites : ag = NewApiGateway(site, "mangahere")
    /\ apis = [r \in RegionSet |-> <<>>]
    /\ nextId = 1
    /\ request = <<>>
    /\ hist = <<>>
    /\ last = NoResult("NewApiGateway", "")
    /\ tasks = NoTasks

Next ==
    \/ \E region \in RegionSet : Initialize(region)
    \/ \E region \in RegionSet : OtherCreate(region)
    \/ \E region \in RegionSet : GetGateways(region)
    \/ \E region \in RegionSet : GetEndpoints(region)
    \/ \E region \in RegionSet : DeleteGateways(region)
    \/ NewRequest
    \/ Reroute
    \/ Dispatch

Spec == Init /\ [][Next]_vars

\* the program that provisions with Start: the tasks run in any interleaving
NextStart ==
    \/ Start
    \/ \E region \in RegionSet : TaskCheck(region)
    \/ \E region \in RegionSet : TaskCreate(region)
    \/ \E region \in RegionSet : TaskLoad(region)
    \/ \E region \in RegionSet : TaskStore(region)

SpecStart == Init /\ [][NextStart]_vars

\* the program that constructs gateways for any site string
InitNew ==
    /\ ag = NoGateway
    /\ apis = [r \in RegionSet |-> <<>>]
    /\ nextId = 1
    /\ request = <<>>
    /\ hist = <<>>
    /\ last = NoResult("", "")
    /\ tasks = NoTasks

NextNew == Construct

SpecNew == InitNew /\ [][NextNew]_vars

-----------------------------------------------------------------------------
(* Properties of Reroute *)

\* the last operation was a Reroute that returned
Rerouted == last.op = "Reroute" /\ last.fault = "none"

\* the last operation was a Reroute that rewrote the request
Rewrote == Rerouted /\ last.err = ""

IsIpv4(v) == Len(v) = 4 /\ \A i \in 1..4 : v[i] \in 0..255

StagePrefix == <<"/", "ProxyStage", "/">>

\* C1: for every endpoint list of n >= 1 entries the selection of Reroute does
\* not fail, and every index 0..n-1 is a possible selection.
C1_SelectionTotal ==
    (last.op = "Reroute" /\ Len(ag.Endpoints) >= 1) =>
        /\ last.fault = "none"
        /\ Selectable(ag.Endpoints) = 0..(Len(ag.Endpoints) - 1)

\* C2: Reroute on an empty endpoint list returns the error EmptyEndpointSet,
\* raises no fatal fault and leaves the request untouched.
C2_EmptyListReported ==
    (last.op = "Reroute" /\ ag.Endpoints = <<>>) =>
        /\ last.fault = "none"
        /\ last.err = "EmptyEndpointSet"
        /\ request = last.before

\* C3: after a rewrite to endpoint e of a request with destination host h, path
\* p and query q, the URL is https://e/ProxyStage/h+p?q and the Host field is e.
C3_RewrittenUrl ==
    Rewrote =>
        LET b == last.before[1]
            a == request[1]
        IN  /\ a.URL.Scheme = <<"https">>
            /\ a.URL.Host = last.endpoint
            /\ a.URL.Path = StagePrefix \o b.URL.Host \o b.URL.Path
            /\ a.URL.RawQuery = b.URL.RawQuery
            /\ a.Host = last.endpoint

\* C4: after a rewrite X-Forwarded-For is absent and X-Forwarded-For-Temp is the
\* value X-Forwarded-For had on entry or, if it had none, one synthesized IPv4
\* address, whatever other headers the request carried.
C4_ForwardedForMoved ==
    Rewrote =>
        LET b == last.before[1]
            a == request[1]
        IN  /\ a.Header[XFF] = <<>>
            /\ IF b.Header[XFF] # <<>>
                   THEN HeaderGet(a.Header, XFFTemp) = HeaderGet(b.Header, XFF)
                   ELSE /\ Len(a.Header[XFFTemp]) = 1
                        /\ IsIpv4(HeaderGet(a.Header, XFFTemp))

\* C5: a second rewrite of the same request leaves X-Forwarded-For-Temp as the
\* first rewrite set it: it holds the value stored then and gains no other.
C5_NoDoubleWrap ==
    (Rewrote /\ Len(hist) >= 2) =>
        /\ hist[1] \in Range(request[1].Header[XFFTemp])
        /\ request[1].Header[XFFTemp] = last.before[1].Header[XFFTemp]

\* C6: when Reroute cannot parse the proxy URL, the request (URL, Host field and
\* every header) is exactly as supplied.
C6_AllOrNothing ==
    (Rerouted /\ last.err # "") => request = last.before

\* a Reroute failed to parse the URL of a request that carried both forwarded-for headers
C6_Witness ==
    /\ Rerouted
    /\ last.err # ""
    /\ request[1].Header[XFF] # <<>>
    /\ request[1].Header[XFFTemp] # <<>>

-----------------------------------------------------------------------------
(* Properties of provisioning and listing *)

\* C7: Initialize for a name that already exists in the region returns no
\* error and creates no resource.
C7_IdempotentProvision ==
    (last.op = "Initialize" /\ last.fault = "none" /\ last.present) =>
        /\ last.err = ""
        /\ ~last.created

RECURSIVE ItemsOf(_)
ItemsOf(log) == IF log = <<>> THEN <<>> ELSE Head(log).Items \o ItemsOf(Tail(log))

\* C8: GetEndpoints requests each next page with exactly the marker the page
\* before carried, whatever the marker, stops at the first page without one
\* and then returns one hostname per resource of the pages, in order.
C8_Paging ==
    (last.op = "GetEndpoints" /\ last.fault # "panic") =>
        /\ last.fault = "none"
        /\ \A i \in 1..(Len(last.log) - 1) :
                /\ last.log[i].Position # <<>>
                /\ last.log[i + 1].Sent = last.log[i].Position
        /\ last.err = "" =>
                /\ last.log[Len(last.log)].Position = <<>>
                /\ last.ret = [i \in 1..Len(ItemsOf(last.log)) |->
                                <<ItemsOf(last.log)[i].Id, ".execute-api.", last.region,
                                  ".amazonaws.com">>]

\* C9: when a page of a GetEndpoints call fails, the call returns the error
\* with an empty list of hostnames and the stored endpoint list is unchanged.
C9_AbortOnError ==
    [][ (last'.op = "GetEndpoints" /\ last'.err # "") =>
            (last'.ret = <<>> /\ ag'.Endpoints = ag.Endpoints) ]_vars

\* a GetEndpoints call failed after a page that listed APIs, the stored list
\* not being empty
C9_Witness ==
    /\ last.op = "GetEndpoints"
    /\ last.err # ""
    /\ Len(last.log) >= 2
    /\ last.log[1].Items # <<>>
    /\ ag.Endpoints # <<>>

InitializeSucceeded(l) == l.op = "Initialize" /\ l.fault = "none" /\ l.err = ""

\* C10: a step changes the endpoint list only if it is an Initialize whose every
\* step succeeded, which appends the hostname of the API it deployed; every
\* other step, a failed Initialize included, leaves the list as it was.
C10_EndpointsFrame ==
    [][ IF InitializeSucceeded(last')
            THEN LET r == last'.region
                     n == Len(apis'[r])
                 IN  /\ n > 0
                     /\ apis'[r][n].Deployed
                     /\ ag'.Endpoints = Append(ag.Endpoints,
                            <<apis'[r][n].Id, ".execute-api.", r, ".amazonaws.com">>)
            ELSE ag'.Endpoints = ag.Endpoints ]_vars

\* a second Initialize succeeded, and a third failed after CreateRestApi
C10_Witness ==
    /\ last.op = "Initialize"
    /\ last.err # ""
    /\ last.created
    /\ Len(ag.Endpoints) = 2

-----------------------------------------------------------------------------
(* Properties of concurrent provisioning *)

\* every task Start launched has returned
AllDone == \A r \in RegionSet : tasks[r].pc = "done"

\* the regions whose task provisioned its gateway and returned nil
Provisioned == {r \in RegionSet : tasks[r].pc = "done" /\ tasks[r].err = ""}

\* C11: when the Initialize tasks that Start launched have all finished, the
\* endpoint list holds exactly one hostname for each region whose provisioning
\* succeeded: no append of a task is lost, in any interleaving.
C11_NoLostAppend ==
    AllDone =>
        /\ Len(ag.Endpoints) = Cardinality(Provisioned)
        /\ \A r \in Provisioned :
                <<tasks[r].id, ".execute-api.", r, ".amazonaws.com">> \in Range(ag.Endpoints)

-----------------------------------------------------------------------------
(* Properties of the endpoint list and of the existence check *)

\* the hostnames of the gateways deployed at the provider
DeployedHostnames ==
    UNION { { <<apis[r][i].Id, ".execute-api.", r, ".amazonaws.com">> :
                i \in {j \in 1..Len(apis[r]) : apis[r][j].Deployed} } : r \in RegionSet }

\* C12: after any sequence of Initialize and DeleteGateways calls, every
\* hostname of the endpoint list is that of a gateway deployed at the provider.
C12_EndpointsLive ==
    \A h \in Range(ag.Endpoints) : h \in DeployedHostnames

\* C13: ApiExistsInRegion answers true exactly when the region holds a gateway
\* of the name, however many gateways the region holds; an Initialize in a
\* region that holds one creates none.
C13_ExistsExact ==
    (last.op = "Initialize" /\ last.fault = "none") =>
        /\ last.exists <=> last.present
        /\ last.present => ~last.created

\* region r holds a gateway of the name that an Initialize created and left
\* undeployed
Stranded(r) ==
    \E i \in 1..Len(apis[r]) : apis[r][i].Name = ag.Name /\ ~apis[r][i].Deployed

\* C15: an Initialize that fails after CreateRestApi leaves the gateway it
\* created at the provider, undeployed; the gateway stays until a
\* DeleteGateways of the region, and until then every Initialize of the region
\* returns the 'already exists' error, creates nothing and appends no hostname.
C15_StrandedBlocks ==
    [][ /\ (last'.op = "Initialize" /\ last'.created /\ last'.err # "") =>
                LET r == last'.region
                    n == Len(apis'[r])
                IN  /\ n = Len(apis[r]) + 1
                    /\ apis'[r][n].Name = ag.Name
                    /\ ~apis'[r][n].Deployed
        /\ \A r \in RegionSet :
                Stranded(r) =>
                    /\ ~(last'.op = "DeleteGateways" /\ last'.region = r) => Stranded(r)'
                    /\ (last'.op = "Initialize" /\ last'.region = r /\ last'.fault = "none") =>
                            /\ last'.err = "an API already exists"
                            /\ apis' = apis
                            /\ ag'.Endpoints = ag.Endpoints ]_vars

-----------------------------------------------------------------------------
(* Properties of construction *)

\* C14: for every site string, the empty one and those made of "/" alone
\* included, NewApiGateway completes without a fault and the gateway's Site is
\* not empty and does not end in "/".
C14_SiteWellFormed ==
    last.op = "NewApiGateway" =>
        /\ last.fault = "none"
        /\ ag.Site # <<>>
        /\ ag.Site[Len(ag.Site)] # "/"

=============================================================================
